---- MODULE Spec2Model ----
(***************************************************************************)
(* NeverEverLand v003 development server (src/v003/serve.py).              *)
(*                                                                         *)
(* main() changes into the script's directory, binds a                     *)
(* socketserver.TCPServer on PORT, prints a banner and runs serve_forever  *)
(* until a KeyboardInterrupt.  Every connection is handled by a            *)
(* CustomHandler, a SimpleHTTPRequestHandler whose end_headers adds three  *)
(* CORS headers and a Content-Type for paths ending in ".js", and whose    *)
(* log_message prints to standard output.                                  *)
(*                                                                         *)
(* The behaviour serve.py inherits from http.server and socketserver       *)
(* (request parsing, send_head, send_error, header buffering, the accept   *)
(* loop) is modelled as CPython's standard library implements it; each     *)
(* such definition names the library routine in its comment.               *)
(***************************************************************************)
EXTENDS Integers, Sequences, FiniteSets, TLC

\* ------------------------------------------------------------------ bounds

\* Number of clients.  Each client is a distinct host, named by its address,
\* and connects at most once.
MaxClients == 2

Clients == 1..MaxClients

\* ------------------------------------------------------------- file system

\* serve.py:13
PORT == 8000

\* A file-system path is a sequence of components; a component is a sequence
\* of tokens, its last token the extension when it has one.
ScriptFile == << <<"srv">>, <<"v003">>, <<"serve", ".py">> >>

\* pathlib.Path.parent
Parent(p) == SubSeq(p, 1, Len(p) - 1)

\* Path(__file__).parent, serve.py:17 and serve.py:36
ScriptDir == Parent(ScriptFile)

\* A directory the process may be launched from that is not the script's.
OtherDir == << <<"home">> >>

LaunchDirs == {ScriptDir, OtherDir}

NoEntry == [kind |-> "none", data |-> <<>>]

\* The files on disk: the script's directory holds an index page, a
\* JavaScript module and a sub-directory without an index; the other
\* directory holds a different index page.
InitialFiles ==
    (ScriptDir :> [kind |-> "dir", data |-> <<>>]) @@
    (ScriptFile :> [kind |-> "file", data |-> <<"#!/usr/bin/env python3">>]) @@
    (Append(ScriptDir, <<"index", ".html">>) :> [kind |-> "file", data |-> <<"<h1>v003</h1>">>]) @@
    (Append(ScriptDir, <<"app", ".js">>) :> [kind |-> "file", data |-> <<"export const a = 1;">>]) @@
    (Append(ScriptDir, <<"sub">>) :> [kind |-> "dir", data |-> <<>>]) @@
    (OtherDir :> [kind |-> "dir", data |-> <<>>]) @@
    (Append(OtherDir, <<"index", ".html">>) :> [kind |-> "file", data |-> <<"<h1>home</h1>">>])

Lookup(files, p) == IF p \in DOMAIN files THEN files[p] ELSE NoEntry

\* ---------------------------------------------------------------- requests

\* A request path is the raw sequence of tokens of the request line's
\* second word: "/" separators, names, extensions, "?" and a query.
P_root == <<"/">>
P_index == <<"/", "index", ".html">>
P_app == <<"/", "app", ".js">>
P_appq == <<"/", "app", ".js", "?", "v=1">>
P_missjs == <<"/", "missing", ".js">>
P_nope == <<"/", "nope">>
P_sub == <<"/", "sub">>
P_subslash == <<"/", "sub", "/">>

Paths == {P_root, P_index, P_app, P_appq, P_missjs, P_nope, P_sub, P_subslash}

Methods == {"GET", "HEAD", "POST", "OPTIONS", "PUT"}

\* The request line's version word: absent ("HTTP/0.9", a two-word request
\* line), well formed, or malformed ("HTTP/x").
Versions == {"HTTP/0.9", "HTTP/1.1", "HTTP/x"}

\* ims: the request carries an If-Modified-Since date (and no If-None-Match)
\* that is not earlier than the modification time of any file.
AllRequests == [method : Methods, path : Paths, version : Versions, ims : BOOLEAN]

\* The requests clients send: every method, path and version occurs; the
\* combinations the server does not distinguish are left out.
Requests ==
    {r \in AllRequests :
        \/ r.version = "HTTP/1.1" /\ r.method = "GET" /\ ~r.ims
        \/ r.version = "HTTP/1.1" /\ r.method = "GET" /\ r.ims
              /\ r.path \in {P_index, P_app, P_nope}
        \/ r.version = "HTTP/1.1" /\ r.method = "HEAD" /\ ~r.ims
              /\ r.path \in {P_index, P_app, P_nope}
        \/ r.version = "HTTP/1.1" /\ r.method = "HEAD" /\ r.ims /\ r.path = P_app
        \/ r.version = "HTTP/1.1" /\ r.method \in {"POST", "OPTIONS"} /\ ~r.ims
              /\ r.path \in {P_index, P_app}
        \/ r.version = "HTTP/1.1" /\ r.method = "PUT" /\ ~r.ims /\ r.path = P_index
        \/ r.version = "HTTP/0.9" /\ r.method = "GET" /\ ~r.ims
              /\ r.path \in {P_index, P_app, P_nope}
        \/ r.version = "HTTP/0.9" /\ r.method = "POST" /\ ~r.ims /\ r.path = P_index
        \/ r.version = "HTTP/x" /\ r.method = "GET" /\ ~r.ims /\ r.path = P_index}

NoRequest == [method |-> "", path |-> <<>>, version |-> "", ims |-> FALSE]

\* --------------------------------------------------------- path resolution

\* str.endswith on the raw request path, serve.py:26
EndsWith(path, suffix) == Len(path) > 0 /\ path[Len(path)] = suffix

\* str.split(sep, 1)[0]: the part of a path before the first sep
RECURSIVE Before(_, _)
Before(path, sep) ==
    IF path = <<>> \/ Head(path) = sep THEN <<>>
    ELSE <<Head(path)>> \o Before(Tail(path), sep)

\* str.split("/") with the empty words filtered out: the components
RECURSIVE Words(_, _)
Words(path, cur) ==
    IF path = <<>> THEN (IF cur = <<>> THEN <<>> ELSE <<cur>>)
    ELSE IF Head(path) = "/"
         THEN (IF cur = <<>> THEN <<>> ELSE <<cur>>) \o Words(Tail(path), <<>>)
         ELSE Words(Tail(path), Append(cur, Head(path)))

\* The URL path of a request path: query and fragment abandoned
UrlPath(path) == Before(Before(path, "?"), "#")

\* SimpleHTTPRequestHandler.translate_path: the file under `directory` a
\* request path names, and whether the URL path ends in a slash.
translate_path(directory, path) ==
    [file |-> directory \o Words(UrlPath(path), <<>>),
     slash |-> EndsWith(UrlPath(path), "/")]

\* The content type SimpleHTTPRequestHandler.guess_type infers from the
\* extension; the type of ".js" depends on the platform's mimetypes table
\* (jsType).
guess_type(file, jsType) ==
    LET name == file[Len(file)]
        ext == name[Len(name)]
    IN  CASE ext = ".html" -> "text/html"
          [] ext = ".js" -> jsType
          [] ext = ".py" -> "text/x-python"
          [] OTHER -> "application/octet-stream"

JsTypes == {"text/javascript", "application/javascript"}

\* ------------------------------------------------------- standard output

\* One line of standard output: a banner line, a request log line or the
\* shutdown notice.  A log line holds the client's address, the format and
\* its arguments (the request line and the status code).
Line(kind, addr, fmt, req, code) ==
    [kind |-> kind, addr |-> addr, fmt |-> fmt, req |-> req, code |-> code]

\* The six lines main prints before serve_forever, serve.py:39-44
BannerLines ==
    << Line("banner", 0, "NeverEverLand v003 Server", NoRequest, 0),
       Line("banner", 0, "Serving at http://localhost:PORT", NoRequest, PORT),
       Line("banner", 0, "Directory: os.getcwd()", NoRequest, 0),
       Line("banner", 0, "Open http://localhost:PORT in your browser", NoRequest, PORT),
       Line("banner", 0, "Press Ctrl+C to stop", NoRequest, 0),
       Line("banner", 0, "--------------------------------------------------", NoRequest, 0) >>

\* print("\n🛑 Server stopped"), serve.py:49
NoticeLine == Line("notice", 0, "Server stopped", NoRequest, 0)

\* log_message overridden to print nothing
log_message_Silent(addr, fmt, req, code) == <<>>

\* CustomHandler.log_message, serve.py:31-33: one printed line holding
\* address_string() and format % args.
log_message(addr, fmt, req, code) == << Line("log", addr, fmt, req, code) >>

\* BaseHTTPRequestHandler.log_request, called by send_response:
\* log_message('"%s" %s %s', requestline, code, size)
log_request(addr, req, code) == log_message(addr, "\"%s\" %s %s", req, code)

\* BaseHTTPRequestHandler.log_error, called by send_error:
\* log_message("code %d, message %s", code, message)
log_error(addr, req, code) == log_message(addr, "code %d, message %s", req, code)

\* ------------------------------------------------------ response headers

\* end_headers without its second send_header
CorsHeaders_NoMethods ==
    << <<"Access-Control-Allow-Origin", "*">>,
       <<"Access-Control-Allow-Headers", "Content-Type">> >>

\* The headers CustomHandler.end_headers adds to every response,
\* serve.py:21-23
CorsHeaders ==
    << <<"Access-Control-Allow-Origin", "*">>,
       <<"Access-Control-Allow-Methods", "GET, POST, OPTIONS">>,
       <<"Access-Control-Allow-Headers", "Content-Type">> >>

\* The MIME type header for JavaScript modules, serve.py:26-27
JsHeader(path) ==
    IF EndsWith(path, ".js") THEN << <<"Content-Type", "text/javascript">> >>
    ELSE <<>>

\* BaseHTTPRequestHandler.send_response: the Server and Date headers
StatusHeaders == << <<"Server", "SimpleHTTP">>, <<"Date", "now">> >>

\* ------------------------------------------------- the inherited handler

\* What the inherited handler does up to its call of end_headers: the
\* status code, the headers sent so far, the body to write after the
\* headers, the lines logged, and whether self.path has been assigned.
Plan(code, hdrs, body, logs, pathSet) ==
    [code |-> code, hdrs |-> hdrs, body |-> body, logs |-> logs, pathSet |-> pathSet]

\* BaseHTTPRequestHandler.send_error: log_error, then send_response (which
\* logs the request), the error page's headers and, unless the command is
\* HEAD, the error page.
send_error(addr, req, code, pathSet) ==
    Plan(code,
         StatusHeaders \o << <<"Connection", "close">>,
                             <<"Content-Type", "text/html;charset=utf-8">>,
                             <<"Content-Length", "len(body)">> >>,
         IF req.method = "HEAD" /\ pathSet THEN <<>>
         ELSE <<"Error response", ToString(code)>>,
         log_error(addr, req, code) \o log_request(addr, req, code),
         pathSet)

\* SimpleHTTPRequestHandler.list_directory
list_directory(addr, req) ==
    Plan(200,
         StatusHeaders \o << <<"Content-type", "text/html; charset=utf-8">>,
                             <<"Content-Length", "len(body)">> >>,
         IF req.method = "HEAD" THEN <<>> ELSE <<"Directory listing">>,
         log_request(addr, req, 200), TRUE)

\* SimpleHTTPRequestHandler.send_head for a path that is not a directory
\* needing a redirect or a listing: 404 when the file cannot be opened, 304
\* when the request's If-Modified-Since is not earlier than the file's
\* modification time, else 200 with the file's content (GET) or without
\* (HEAD).
send_file(addr, req, file, slash, files, jsType) ==
    IF slash \/ Lookup(files, file).kind # "file"
    THEN send_error(addr, req, 404, TRUE)
    ELSE IF req.ims
    THEN Plan(304, StatusHeaders, <<>>, log_request(addr, req, 304), TRUE)
    ELSE Plan(200,
              StatusHeaders \o << <<"Content-type", guess_type(file, jsType)>>,
                                  <<"Content-Length", "len(body)">>,
                                  <<"Last-Modified", "mtime">> >>,
              IF req.method = "HEAD" THEN <<>> ELSE Lookup(files, file).data,
              log_request(addr, req, 200), TRUE)

\* SimpleHTTPRequestHandler.send_head
send_head(addr, req, directory, files, jsType) ==
    LET t == translate_path(directory, req.path)
        index == Append(t.file, <<"index", ".html">>)
    IN  IF Lookup(files, t.file).kind = "dir"
        THEN IF ~t.slash
             THEN Plan(301,
                       StatusHeaders \o << <<"Location", "path/">>,
                                           <<"Content-Length", "0">> >>,
                       <<>>, log_request(addr, req, 301), TRUE)
             ELSE IF Lookup(files, index).kind = "file"
             THEN send_file(addr, req, index, FALSE, files, jsType)
             ELSE list_directory(addr, req)
        ELSE send_file(addr, req, t.file, t.slash, files, jsType)

\* BaseHTTPRequestHandler.handle_one_request with parse_request: a
\* malformed version or a two-word request line that is not a GET is
\* answered 400 before self.path is assigned; a method without a do_ method
\* is answered 501; GET and HEAD go to send_head.
handle_one_request(addr, req, directory, files, jsType) ==
    IF req.version = "HTTP/x" THEN send_error(addr, req, 400, FALSE)
    ELSE IF req.version = "HTTP/0.9" /\ req.method # "GET"
    THEN send_error(addr, req, 400, FALSE)
    ELSE IF req.method \notin {"GET", "HEAD"} THEN send_error(addr, req, 501, TRUE)
    ELSE send_head(addr, req, directory, files, jsType)

\* ---------------------------------------------------------- end_headers

NoResponse == [sent |-> FALSE, head |-> FALSE, code |-> 0, headers |-> <<>>, body |-> <<>>]

\* CustomHandler.end_headers, serve.py:19-29, applied to the inherited
\* handler's plan.  It reads self.path (serve.py:26): when the request line
\* was rejected before self.path was assigned the read raises
\* AttributeError and nothing is written.  A request without a version
\* (HTTP/0.9) gets no status line and no headers: send_header and
\* end_headers buffer nothing for it, and only the body is written.
end_headers(req, plan) ==
    IF ~plan.pathSet THEN NoResponse
    ELSE IF req.version = "HTTP/0.9"
    THEN [sent |-> TRUE, head |-> FALSE, code |-> plan.code, headers |-> <<>>,
          body |-> plan.body]
    ELSE [sent |-> TRUE, head |-> TRUE, code |-> plan.code,
          headers |-> plan.hdrs \o CorsHeaders \o JsHeader(req.path),
          body |-> plan.body]

\* A handler serving the directory the process was launched in
HandlerDirectory_Launch(launch, work) == launch

\* The directory every CustomHandler is constructed with, serve.py:17:
\* Path(__file__).parent, whatever the launch and the working directory.
HandlerDirectory(launch, work) == ScriptDir

\* ------------------------------------------------------------ the process

VARIABLES
    pc,             \* main's position: start, bind, banner, serve, read, caught, noticed, exited
    launchDir,      \* the working directory the process was launched in
    cwd,            \* the process's working directory
    portBusy,       \* another process holds PORT when this one starts
    jsType,         \* the platform's MIME type for ".js"
    files,          \* the files on disk
    server_address, \* the address the server socket is bound to, <<>> before
    listening,      \* the server socket is open
    directory,      \* the directory of the handler constructed last, <<>> before
    backlog,        \* connections made and not yet accepted, oldest first
    conn,           \* the client whose connection is being handled, 0 if none
    cstate,         \* per client: idle, queued, accepted, done, aborted
    sent,           \* per client: its request has arrived at the server's socket
    req,            \* per client: the request the handler read, NoRequest before
    resp,           \* per client: the response written to its connection
    stdout,         \* the lines printed to standard output
    stderr,         \* the tracebacks printed to standard error
    exitStatus,     \* the process's exit status, -1 while it runs
    interrupts      \* the lifecycle states in which interrupt signals arrived

vars == <<pc, launchDir, cwd, portBusy, jsType, files, server_address, listening,
          directory, backlog, conn, cstate, sent, req, resp, stdout, stderr,
          exitStatus, interrupts>>

\* The spec's lifecycle states: Starting until the banner is printed and
\* serve_forever entered, Serving inside serve_forever, Stopped after.
Lifecycle(p) ==
    CASE p \in {"start", "bind", "banner"} -> "Starting"
      [] p \in {"serve", "read"} -> "Serving"
      [] OTHER -> "Stopped"

Init ==
    /\ pc = "start"
    /\ launchDir \in LaunchDirs
    /\ cwd = launchDir
    /\ portBusy \in BOOLEAN
    /\ jsType \in JsTypes
    /\ files = InitialFiles
    /\ server_address = <<>>
    /\ listening = FALSE
    /\ directory = <<>>
    /\ backlog = <<>>
    /\ conn = 0
    /\ cstate = [c \in Clients |-> "idle"]
    /\ sent = [c \in Clients |-> FALSE]
    /\ req = [c \in Clients |-> NoRequest]
    /\ resp = [c \in Clients |-> NoResponse]
    /\ stdout = <<>>
    /\ stderr = <<>>
    /\ exitStatus = -1
    /\ interrupts = <<>>

\* A chdir one level too high
ChdirTarget_Parent == Parent(ScriptDir)

\* The directory main changes into, serve.py:36
ChdirTarget == ScriptDir

\* os.chdir(Path(__file__).parent), serve.py:36
Chdir ==
    /\ pc = "start"
    /\ cwd' = ChdirTarget
    /\ pc' = "bind"
    /\ UNCHANGED <<launchDir, portBusy, jsType, files, server_address, listening,
                   directory, backlog, conn, cstate, sent, req, resp, stdout, stderr,
                   exitStatus, interrupts>>

\* The exit status of a process ended by an exception nothing catches
UnhandledExit == 1

\* A bind that is tried again after it failed
PcAfterBindError_Retry == "bind"

\* A bind error that is swallowed
PcAfterBindError_Ignored == "banner"

\* Where main is after TCPServer's constructor failed to bind: nothing
\* catches the OSError, serve.py:38
PcAfterBindError == "exited"

\* socketserver.TCPServer(("", PORT), CustomHandler), serve.py:38: bind and
\* listen, or OSError when the port is taken.
Bind ==
    /\ pc = "bind"
    /\ IF portBusy
       THEN /\ pc' = PcAfterBindError
            /\ stderr' = Append(stderr, "OSError: Address already in use")
            /\ exitStatus' = IF PcAfterBindError = "exited" THEN UnhandledExit ELSE exitStatus
            /\ UNCHANGED <<server_address, listening>>
       ELSE /\ pc' = "banner"
            /\ server_address' = <<"", PORT>>
            /\ listening' = TRUE
            /\ UNCHANGED <<stderr, exitStatus>>
    /\ UNCHANGED <<launchDir, cwd, portBusy, jsType, files, directory, backlog,
                   conn, cstate, sent, req, resp, stdout, interrupts>>

\* One of the six prints of serve.py:39-44; after the last, main enters
\* httpd.serve_forever(), serve.py:47.
Banner ==
    /\ pc = "banner"
    /\ stdout' = Append(stdout, BannerLines[Len(stdout) + 1])
    /\ pc' = IF Len(stdout') = Len(BannerLines) THEN "serve" ELSE "banner"
    /\ UNCHANGED <<launchDir, cwd, portBusy, jsType, files, server_address,
                   listening, directory, backlog, conn, cstate, sent, req, resp, stderr,
                   exitStatus, interrupts>>

\* A client connects: the kernel completes the connection and queues it on
\* the listening socket.
Connect(c) ==
    /\ listening
    /\ cstate[c] = "idle"
    /\ backlog' = Append(backlog, c)
    /\ cstate' = [cstate EXCEPT ![c] = "queued"]
    /\ UNCHANGED <<pc, launchDir, cwd, portBusy, jsType, files, server_address,
                   listening, directory, conn, sent, req, resp, stdout, stderr,
                   exitStatus, interrupts>>

\* A client sends its request on its open connection; what the request says
\* is drawn when the handler reads it (HandleRequest).
Send(c) ==
    /\ cstate[c] \in {"queued", "accepted"}
    /\ ~sent[c]
    /\ sent' = [sent EXCEPT ![c] = TRUE]
    /\ UNCHANGED <<pc, launchDir, cwd, portBusy, jsType, files, server_address,
                   listening, directory, backlog, conn, cstate, req, resp, stdout,
                   stderr, exitStatus, interrupts>>

\* Accepting the newest connection first
NextConnection_Newest(q) == q[Len(q)]

\* The connection serve_forever accepts next: TCPServer.get_request takes
\* the oldest queued connection.
NextConnection(q) == Head(q)

\* serve_forever's _handle_request_noblock, serve.py:47: accept a
\* connection and construct its CustomHandler (serve.py:16-17), which then
\* waits for the request line on the main thread.
Accept ==
    /\ pc = "serve"
    /\ backlog # <<>>
    /\ conn' = NextConnection(backlog)
    /\ backlog' = SelectSeq(backlog, LAMBDA c : c # NextConnection(backlog))
    /\ cstate' = [cstate EXCEPT ![NextConnection(backlog)] = "accepted"]
    /\ directory' = HandlerDirectory(launchDir, cwd)
    /\ pc' = "read"
    /\ UNCHANGED <<launchDir, cwd, portBusy, jsType, files, server_address,
                   listening, sent, req, resp, stdout, stderr, exitStatus, interrupts>>

\* A not-found error that escapes the handler and the accept loop
PcAfterRequest_Fatal404(plan) == IF plan.code = 404 THEN "exited" ELSE "serve"

\* Where main is after a handler returned or raised: socketserver's
\* handle_error reports an exception of the handler and serve_forever goes
\* on, serve.py:47.
PcAfterRequest(plan) == "serve"

\* The handler's whole run on the request its client sent: the inherited
\* handle_one_request, CustomHandler.end_headers and log_message
\* (serve.py:15-33), then the connection is closed.
HandleRequest(r) ==
    /\ pc = "read"
    /\ sent[conn]
    /\ LET plan == handle_one_request(conn, r, directory, files, jsType)
       IN  /\ resp' = [resp EXCEPT ![conn] = end_headers(r, plan)]
           /\ stdout' = stdout \o plan.logs
           /\ stderr' = IF plan.pathSet THEN stderr
                        ELSE Append(stderr, "AttributeError: no attribute 'path'")
           /\ pc' = PcAfterRequest(plan)
           /\ exitStatus' = IF PcAfterRequest(plan) = "exited" THEN UnhandledExit
                            ELSE exitStatus
    /\ req' = [req EXCEPT ![conn] = r]
    /\ cstate' = [cstate EXCEPT ![conn] = "done"]
    /\ conn' = 0
    /\ UNCHANGED <<launchDir, cwd, portBusy, jsType, files, server_address,
                   listening, directory, backlog, sent, interrupts>>

\* The exit status of a process ended by a KeyboardInterrupt nothing catches
SigintExit == 130

\* The interrupt signal: KeyboardInterrupt is raised on the main thread
\* wherever it is.  Inside serve_forever (serve.py:46-47) the except clause
\* of serve.py:48 catches it, and the connection being handled is shut
\* down; anywhere else nothing catches it and the process ends.
Interrupt ==
    /\ pc # "exited"
    /\ interrupts' = Append(interrupts, Lifecycle(pc))
    /\ IF Lifecycle(pc) = "Serving"
       THEN /\ pc' = "caught"
            /\ cstate' = IF conn = 0 THEN cstate ELSE [cstate EXCEPT ![conn] = "aborted"]
            /\ conn' = 0
            /\ UNCHANGED <<listening, exitStatus, stderr>>
       ELSE /\ pc' = "exited"
            /\ listening' = FALSE
            /\ exitStatus' = SigintExit
            /\ stderr' = Append(stderr, "KeyboardInterrupt")
            /\ UNCHANGED <<cstate, conn>>
    /\ UNCHANGED <<launchDir, cwd, portBusy, jsType, files, server_address,
                   directory, backlog, sent, req, resp, stdout>>

\* The lines the except clause prints, serve.py:49
ShutdownNotice == << NoticeLine >>

\* print("\n🛑 Server stopped"), serve.py:49
PrintNotice ==
    /\ pc = "caught"
    /\ stdout' = stdout \o ShutdownNotice
    /\ pc' = "noticed"
    /\ UNCHANGED <<launchDir, cwd, portBusy, jsType, files, server_address,
                   listening, directory, backlog, conn, cstate, sent, req, resp, stderr,
                   exitStatus, interrupts>>

\* sys.exit with a failure status
ExitStatusOnInterrupt_Failure == UnhandledExit

\* The status of sys.exit, serve.py:50
ExitStatusOnInterrupt == 0

\* sys.exit(0), serve.py:50; the with statement of serve.py:38 closes the
\* server socket on the way out.
SysExit ==
    /\ pc = "noticed"
    /\ pc' = "exited"
    /\ exitStatus' = ExitStatusOnInterrupt
    /\ listening' = FALSE
    /\ UNCHANGED <<launchDir, cwd, portBusy, jsType, files, server_address,
                   directory, backlog, conn, cstate, sent, req, resp, stdout, stderr,
                   interrupts>>

Next ==
    \/ Chdir
    \/ Bind
    \/ Banner
    \/ \E c \in Clients : Connect(c)
    \/ \E c \in Clients : Send(c)
    \/ Accept
    \/ \E r \in Requests : HandleRequest(r)
    \/ Interrupt
    \/ PrintNotice
    \/ SysExit

Spec == Init /\ [][Next]_vars

\* One request per way the handler can end: a file served, an error
\* answered, a request line rejected with nothing sent.  The liveness
\* claims are about the order of the steps, not about what a request says.
LiveRequests ==
    {r \in Requests :
        /\ r.method = "GET" /\ ~r.ims
        /\ \/ r.version = "HTTP/1.1" /\ r.path \in {P_index, P_nope}
           \/ r.version = "HTTP/x"}

LiveInit == Init /\ launchDir = OtherDir /\ jsType = "text/javascript"

\* A step of the main thread
ServerStep ==
    \/ Chdir
    \/ Bind
    \/ Banner
    \/ Accept
    \/ \E r \in LiveRequests : HandleRequest(r)
    \/ PrintNotice
    \/ SysExit

\* A step of a client, or the interrupt signal
EnvironmentStep ==
    \/ \E c \in Clients : Connect(c)
    \/ \E c \in Clients : Send(c)
    \/ Interrupt

LiveNext == ServerStep \/ EnvironmentStep

\* The main thread keeps running its sequential code unless it is blocked
\* (waiting for a connection, or for the accepted connection's request);
\* clients and the interrupt signal are under no obligation.
FairSpec == LiveInit /\ [][LiveNext]_vars /\ WF_vars(ServerStep)

\* ------------------------------------------------------------ vocabulary

\* The clients whose connection the handler ran to its end on
Handled == {c \in Clients : cstate[c] = "done"}

\* A step in which the handler runs on the current connection's request
HandleStep == pc = "read" /\ cstate'[conn] = "done"

HasHeader(r, h) == \E i \in 1..Len(r.headers) : r.headers[i] = h

\* The Content-Type headers of a response, in the order written (header
\* names are case-insensitive)
ContentTypes(r) == SelectSeq(r.headers, LAMBDA h : h[1] \in {"Content-Type", "Content-type"})

\* The log lines standard output holds for a client
LogLines(c) == SelectSeq(stdout, LAMBDA l : l.kind = "log" /\ l.addr = c)

NoticeCount == Len(SelectSeq(stdout, LAMBDA l : l.kind = "notice"))

\* The file under the script's directory a request path resolves to: the
\* file it names, or the index page of the directory it names with a
\* trailing slash; <<>> when there is none.
ExistingFile(path) ==
    LET f == ScriptDir \o Words(UrlPath(path), <<>>)
        slash == EndsWith(UrlPath(path), "/")
        index == Append(f, <<"index", ".html">>)
    IN  IF ~slash /\ Lookup(InitialFiles, f).kind = "file" THEN f
        ELSE IF slash /\ Lookup(InitialFiles, f).kind = "dir"
                /\ Lookup(InitialFiles, index).kind = "file" THEN index
        ELSE <<>>

\* The request line is well formed: parse_request accepts it
WellFormed(r) ==
    /\ r.version # "HTTP/x"
    /\ r.version = "HTTP/0.9" => r.method = "GET"

\* A GET or HEAD for a path with no file or directory under the root
MissingFile(r) ==
    /\ WellFormed(r)
    /\ r.method \in {"GET", "HEAD"}
    /\ Lookup(InitialFiles, ScriptDir \o Words(UrlPath(r.path), <<>>)).kind = "none"

\* Client a's request was handled before client b's
HandledBefore(a, b) ==
    \E i, j \in 1..Len(stdout) :
        /\ i < j
        /\ stdout[i].kind = "log" /\ stdout[i].addr = a
        /\ stdout[j].kind = "log" /\ stdout[j].addr = b

\* ------------------------------------------------------------------- C1

\* C1 (as claimed): every response the server sends carries the three CORS
\* headers, whatever the path, the method and the status.
C1_CorsOnEveryResponse ==
    \A c \in Clients :
        resp[c].sent =>
            \A i \in 1..Len(CorsHeaders) : HasHeader(resp[c], CorsHeaders[i])

\* C1 (amended): every response to a request line that carries an HTTP
\* version has a status line and carries the three CORS headers with their
\* values, after the inherited handler's headers, whatever the path, the
\* method and the status; a response to a request line without a version
\* (HTTP/0.9) has no status line and no header at all.
C1_CorsOnEveryHeaderBlock ==
    \A c \in Clients :
        resp[c].sent =>
            IF req[c].version = "HTTP/0.9"
            THEN ~resp[c].head /\ resp[c].headers = <<>>
            ELSE /\ resp[c].head
                 /\ \A i \in 1..Len(CorsHeaders) : HasHeader(resp[c], CorsHeaders[i])
                 /\ HasHeader(resp[c], <<"Access-Control-Allow-Origin", "*">>)
                 /\ HasHeader(resp[c], <<"Access-Control-Allow-Methods", "GET, POST, OPTIONS">>)
                 /\ HasHeader(resp[c], <<"Access-Control-Allow-Headers", "Content-Type">>)

\* C1 witness: a 404 to a GET and a 501 to a POST, both with the headers.
C1_Witness ==
    \E a, b \in Clients :
        /\ resp[a].sent /\ resp[a].code = 404 /\ req[a].method = "GET"
        /\ resp[b].sent /\ resp[b].code = 501 /\ req[b].method = "POST"
        /\ \A c \in {a, b} : \A i \in 1..3 : HasHeader(resp[c], CorsHeaders[i])

\* ------------------------------------------------------------------- C2

\* C2: a response with headers to a request whose path ends in ".js" has
\* exactly one Content-Type, and it is text/javascript.
C2_OneJsContentType ==
    \A c \in Clients :
        (resp[c].sent /\ resp[c].head /\ EndsWith(req[c].path, ".js")) =>
            ContentTypes(resp[c]) = << <<"Content-Type", "text/javascript">> >>

\* ------------------------------------------------------------------- C3

\* C3 (as claimed): once an interrupt has arrived while Serving, the process
\* ends with the notice printed exactly once and exit status 0.
C3_InterruptAlwaysExitsZero ==
    (pc = "exited" /\ interrupts # <<>> /\ interrupts[1] = "Serving") =>
        (exitStatus = 0 /\ NoticeCount = 1)

\* C3 (amended): an interrupt that arrives while Serving (idle or in the
\* middle of a request) ends the handling of requests and the process
\* eventually terminates; when no further interrupt arrives before it has
\* exited, the shutdown notice is printed exactly once, as the last line of
\* standard output, and the exit status is 0.  A further interrupt during
\* the shutdown ends the process with a non-zero status.
C3_InterruptStopsServer ==
    /\ [](pc = "exited" /\ interrupts = <<"Serving">> =>
             /\ exitStatus = 0
             /\ NoticeCount = 1
             /\ stdout[Len(stdout)] = NoticeLine)
    /\ [](pc = "exited" /\ Len(interrupts) = 2 => exitStatus # 0)
    /\ [](NoticeCount <= 1)
    /\ [][interrupts # <<>> =>
             /\ resp' = resp /\ req' = req
             /\ Lifecycle(pc') = "Stopped"]_vars
    /\ (interrupts # <<>>) ~> (pc = "exited")

\* C3 witness: interrupted in the middle of a request, the process has
\* printed the notice and exited with status 0.
C3_Witness ==
    /\ pc = "exited" /\ interrupts = <<"Serving">> /\ exitStatus = 0
    /\ NoticeCount = 1
    /\ \E c \in Clients : cstate[c] = "aborted"

\* ------------------------------------------------------------------- C4

\* C4: when the port is taken at start the process never binds, never
\* listens on any port, never serves and never retries: it ends with a
\* non-zero status.
C4_BindFailureIsFatal ==
    /\ [](portBusy =>
             /\ Lifecycle(pc) # "Serving"
             /\ pc \in {"start", "bind", "exited"}
             /\ ~listening /\ server_address = <<>>
             /\ stdout = <<>>
             /\ (pc = "exited" => exitStatus \notin {0, -1}))
    /\ [][portBusy /\ pc = "bind" => pc' = "exited"]_vars
    /\ portBusy ~> (pc = "exited")

\* C4 witness: the bind failed and the process has exited with status 1.
C4_Witness ==
    /\ portBusy /\ pc = "exited" /\ exitStatus = 1 /\ interrupts = <<>>
    /\ stderr = <<"OSError: Address already in use">>

\* ------------------------------------------------------------------- C5

GetOfExistingFile(r) ==
    r.method = "GET" /\ WellFormed(r) /\ ExistingFile(r.path) # <<>>

C7_OneLogLinePerRequest ==
    [][HandleStep => Len(stdout') = Len(stdout) + 1]_vars

\* The lines a handled request adds to standard output
Logged == SubSeq(stdout', Len(stdout) + 1, Len(stdout'))

\* C7 (amended): handling a request line prints, before the response is
\* written, one line with the client's address, the request line and the
\* status; when the status is an error (400 or above) that line is preceded
\* by one more line with the client's address and the error's code.  So a
\* success or a redirect logs one line, a not-found, an unsupported method
\* or a rejected request line logs two.
C7_LogLinesPerRequest ==
    [][HandleStep =>
        LET c == conn
            n == Len(Logged)
        IN  /\ stdout' = stdout \o Logged
            /\ n \in {1, 2}
            /\ n = IF Logged[n].code >= 400 THEN 2 ELSE 1
            /\ \A i \in 1..n :
                  /\ Logged[i].kind = "log"
                  /\ Logged[i].addr = c
                  /\ Logged[i].req = req'[c]
            /\ Logged[n].fmt = "\"%s\" %s %s"
            /\ n = 2 => Logged[1].fmt = "code %d, message %s"
            /\ resp'[c].sent => Logged[n].code = resp'[c].code
            /\ stderr' # stderr <=> ~resp'[c].sent]_vars

\* C7 witness: a 404 whose client has two log lines, and a 200 whose client
\* has one.
C7_Witness ==
    \E a, b \in Handled :
        /\ resp[a].code = 404 /\ Len(LogLines(a)) = 2
        /\ resp[b].code = 200 /\ Len(LogLines(b)) = 1

\* ------------------------------------------------------------------- C8

\* The transitions of the lifecycle the claim allows, with their causes;
\* byInterrupt: an interrupt may also end Starting.
LifecycleStep(byInterrupt) ==
    LET a == Lifecycle(pc)
        b == Lifecycle(pc')
        bindError == pc = "bind" /\ portBusy /\ interrupts' = interrupts
        interrupt == interrupts' = Append(interrupts, a)
    IN  /\ a = "Stopped" => b = "Stopped"
        /\ b = "Starting" => a = "Starting"
        /\ (a = "Starting" /\ b = "Serving") =>
              /\ listening /\ server_address = <<"", PORT>>
              /\ stdout' = BannerLines
        /\ (a = "Starting" /\ b = "Stopped") =>
              (bindError \/ (byInterrupt /\ interrupt))
        /\ (a = "Serving" /\ b = "Stopped") => interrupt
        /\ HandleStep => (a = "Serving" /\ b = "Serving")
        /\ pc' = "exited" => (bindError \/ interrupts' # <<>>)

\* C8 (as claimed): the lifecycle moves only Starting -> Serving (bind
\* succeeded), Starting -> Stopped (fatal bind error) and Serving -> Stopped
\* (interrupt).
C8_LifecycleAsClaimed == [][LifecycleStep(FALSE)]_vars

\* C8 (amended): the lifecycle has the three states Starting, Serving and
\* Stopped and moves only Starting -> Serving (the bind succeeded and the
\* banner is printed), Starting -> Stopped (a fatal bind error, or an
\* interrupt that arrives before serve_forever is entered) and Serving ->
\* Stopped (interrupt); Stopped is terminal, nothing returns to Starting,
\* Stopped is reached only via an interrupt or a fatal bind error, and
\* handling a request leaves the state at Serving.
C8_Lifecycle ==
    /\ [](pc \in {"start", "bind", "banner", "serve", "read", "caught",
                  "noticed", "exited"})
    /\ [](Lifecycle(pc) = "Stopped" => (interrupts # <<>> \/ (portBusy /\ exitStatus = 1)))
    /\ [][LifecycleStep(TRUE)]_vars

\* C8 witness: the process went Starting, Serving, handled a request, and
\* was stopped by an interrupt.
C8_Witness ==
    /\ pc = "exited" /\ interrupts = <<"Serving">>
    /\ Handled # {}

\* ------------------------------------------------------------------- C9

\* The client has sent its request and has no answer yet
Waiting(c) == cstate[c] \in {"queued", "accepted"} /\ sent[c]

Answered(c) == cstate[c] = "done"

\* C9 (as claimed): every connection whose request has been sent is
\* eventually answered (or the server is stopped), even when another
\* client's connection is open and idle.
C9_NoStarvation ==
    \A c \in Clients : Waiting(c) ~> (Answered(c) \/ Lifecycle(pc) = "Stopped")

\* C9 (amended): the server handles one connection at a time, in the order
\* the connections were made, and waits for the accepted connection's
\* request before anything else: a connection whose request has been sent
\* is eventually answered (or the server is stopped) provided every
\* connection accepted while it waits eventually sends its request; an
\* accepted connection that stays idle blocks all later ones.
C9_ServedInOrder ==
    /\ [](pc = "read" <=> conn # 0)
    /\ [][pc = "serve" /\ pc' = "read" => conn' = Head(backlog) /\ backlog' = Tail(backlog)]_vars
    /\ [][pc = "read" /\ ~sent[conn] =>
             (stdout' = stdout /\ resp' = resp /\ backlog' \in {backlog} \cup {Append(backlog, c) : c \in Clients})]_vars
    /\ (\A c \in Clients : [](cstate[c] = "accepted" => <>(sent[c] \/ Lifecycle(pc) = "Stopped")))
          => (\A c \in Clients : Waiting(c) ~> (Answered(c) \/ Lifecycle(pc) = "Stopped"))

\* C9 witness: a client has sent its request and waits in the queue behind
\* an accepted connection that has sent nothing.
C9_Witness ==
    \E a, b \in Clients :
        /\ pc = "read" /\ conn = a /\ ~sent[a]
        /\ cstate[b] = "queued" /\ sent[b]

\* ------------------------------------------------------------------ C10

\* C10: the bound address and the working directory are set during Starting
\* and never change afterwards, every handler serves the directory the
\* process changed into, and no step changes the files: handling requests
\* of any method and path leaves all of them as they were.
C10_ConfigurationIsFixed ==
    /\ [](Lifecycle(pc) = "Serving" =>
             /\ server_address = <<"", PORT>>
             /\ cwd = ScriptDir)
    /\ [](directory # <<>> => directory = cwd)
    /\ [](files = InitialFiles)
    /\ [][Lifecycle(pc) # "Starting" =>
             /\ server_address' = server_address
             /\ cwd' = cwd
             /\ files' = files]_vars
    /\ [][directory # <<>> => directory' = directory]_vars

\* C10 witness: launched from another directory, the server has handled a
\* POST and a GET and its configuration is the one set at start.
C10_Witness ==
    \E a, b \in Handled :
        /\ launchDir = OtherDir /\ cwd = ScriptDir /\ directory = ScriptDir
        /\ req[a].method = "POST" /\ req[b].method = "GET"
        /\ server_address = <<"", PORT>>

====
